---------------------------- MODULE Spec2Model ----------------------------
(***************************************************************************)
(* A model of the field-understanding and value-resolution engine of the   *)
(* form filler: AIService (direct mapping, usage modes, the generative     *)
(* call with its cache, cooldown and single retry, the bulk call and its   *)
(* parse fallback, the per-field fill loop) and FormFiller.fillForm.       *)
(*                                                                         *)
(* Strings are TLA+ strings, taken apart with Len and SubSeq and joined    *)
(* with \o.  Time is counted in seconds.  A fill pass is a sequence of     *)
(* steps; the environment (the service's responses, the clock, other       *)
(* message handlers) acts only where the code awaits a network response    *)
(* or a timer, and between passes.                                         *)
(***************************************************************************)
EXTENDS Integers, Sequences, FiniteSets, TLC

VARIABLES
    apiKey,              \* AIService.apiKey ("" models null)
    userData,            \* AIService.userData: profile key -> value
    cache,               \* AIService.cache: cache key -> answer
    rateLimitedUntilMs,  \* AIService.rateLimitedUntilMs (0 models null), seconds
    sensitiveKeys,       \* AIService.sensitiveKeys
    usageMode,           \* AIService.usageMode
    now,                 \* Date.now(), seconds
    page,                \* the document: the fields detectFormFields finds
    dom,                 \* per element of the page: value written, events dispatched
    pc,                  \* position of the fill pass (idle between passes)
    fields,              \* fillForm: const fields
    results,             \* fillForm: const results {filled, total, errors}
    bulkValues,          \* fillForm: let bulkValues
    fieldIndex,          \* fillForm: let fieldIndex
    fieldPos,            \* fillForm: for (const field of fields), the fields taken
    learned,             \* fillForm: const learned
    fb,                  \* generateValuesForFields fallback loop: index, result
    call,                \* the callOpenAI invocation in progress
    ret,                 \* what the last callOpenAI returned or threw
    report,              \* what the last pass returned to its caller
    hist,                \* history of the current pass and of the cache keys
    stored,              \* chrome.storage.sync: openaiApiKey, userData, sensitiveKeys,
                         \* usageMode
    popup,               \* the popup: its suggested and formStats state
    input,               \* what a function examined on its own is applied to, or the
                         \* argument of the last updateUserData or setSensitiveKeys
    output               \* and what it returned

vars == << apiKey, userData, cache, rateLimitedUntilMs, sensitiveKeys, usageMode,
           now, page, dom, pc, fields, results, bulkValues, fieldIndex, fieldPos,
           learned,
           fb, call, ret, report, hist, stored, popup, input, output >>

---------------------------------------------------------------------------
(* Bounds of the model *)

\* The clock stops advancing at MaxTime seconds
MaxTime == 1
\* Number of fill passes in the lifetime of the page
MaxPasses == 2

---------------------------------------------------------------------------
(* Strings *)

Chars(s) == { SubSeq(s, i, i) : i \in 1..Len(s) }

UpperCase == "ABCDEFGHIJKLMNOPQRSTUVWXYZ"
LowerCase == "abcdefghijklmnopqrstuvwxyz"
Digits == "0123456789"

\* String.prototype.toLowerCase, one character
LowerChar(c) ==
    IF c \in Chars(UpperCase)
    THEN LET i == CHOOSE j \in 1..Len(UpperCase) : SubSeq(UpperCase, j, j) = c
         IN  SubSeq(LowerCase, i, i)
    ELSE c

RECURSIVE toLowerCase(_)
toLowerCase(s) ==
    IF s = "" THEN ""
    ELSE LowerChar(SubSeq(s, 1, 1)) \o toLowerCase(SubSeq(s, 2, Len(s)))

\* String.prototype.substring(a - 1, b): the characters a..b that exist
Slice(s, a, b) ==
    IF a > b \/ a > Len(s) THEN "" ELSE SubSeq(s, a, IF b > Len(s) THEN Len(s) ELSE b)

\* String.prototype.includes
Includes(hay, needle) ==
    \E i \in 0..(Len(hay) - Len(needle)) : SubSeq(hay, i + 1, i + Len(needle)) = needle

\* String.prototype.trim (the only whitespace of the model is the space)
RECURSIVE trim(_)
trim(s) ==
    IF s = "" THEN ""
    ELSE IF SubSeq(s, 1, 1) = " " THEN trim(SubSeq(s, 2, Len(s)))
    ELSE IF SubSeq(s, Len(s), Len(s)) = " " THEN trim(SubSeq(s, 1, Len(s) - 1))
    ELSE s

\* .replace(/[^a-z0-9\s]/g, ' ')
RECURSIVE replaceNonAlnum(_)
replaceNonAlnum(s) ==
    IF s = "" THEN ""
    ELSE LET c == SubSeq(s, 1, 1)
         IN  (IF c \in Chars(LowerCase) \cup Chars(Digits) \cup {" "} THEN c ELSE " ")
             \o replaceNonAlnum(SubSeq(s, 2, Len(s)))

\* .replace(/\s+/g, ' ')
RECURSIVE collapseSpaces(_)
collapseSpaces(s) ==
    IF Len(s) < 2 THEN s
    ELSE IF SubSeq(s, 1, 2) = "  " THEN collapseSpaces(SubSeq(s, 2, Len(s)))
    ELSE SubSeq(s, 1, 1) \o collapseSpaces(SubSeq(s, 2, Len(s)))

normalizeLabel(text) ==
    trim(collapseSpaces(replaceNonAlnum(toLowerCase(text))))

\* Array.prototype.join
RECURSIVE join(_, _)
join(seq, sep) ==
    IF Len(seq) = 0 THEN ""
    ELSE IF Len(seq) = 1 THEN seq[1]
    ELSE seq[1] \o sep \o join(Tail(seq), sep)

\* a || b on strings: the first non-empty one
Or2(a, b) == IF a # "" THEN a ELSE b

\* Number.prototype.toString of a field index
IndexString(i) == SubSeq(Digits, i + 1, i + 1)

---------------------------------------------------------------------------
(* Category classifier *)

synonyms ==
    [ name |-> << "name", "full name", "your name", "applicant name" >>,
      email |-> << "email", "e-mail", "mail id", "email address" >>,
      phone |-> << "phone", "mobile", "mobile number", "cell", "cellphone",
                   "contact number", "whatsapp number", "telephone", "tel" >>,
      address |-> << "address", "street", "home address", "line address" >>,
      city |-> << "city", "town" >>,
      state |-> << "state", "province", "region" >>,
      zipCode |-> << "zip", "zipcode", "postal code", "pin code", "pincode" >>,
      country |-> << "country", "nation" >>,
      dateOfBirth |-> << "dob", "date of birth", "birth date", "birthday" >>,
      linkedin |-> << "linkedin", "linked in" >>,
      github |-> << "github", "git hub" >>,
      portfolio |-> << "portfolio", "website", "site url", "personal site", "portfolio url" >>,
      experience |-> << "experience", "work experience", "professional experience" >>,
      education |-> << "education", "qualification", "degree", "academics" >>,
      skills |-> << "skills", "skillset", "technical skills" >>,
      salary |-> << "salary", "ctc", "compensation", "expected salary" >>,
      availability |-> << "availability", "available from", "notice period", "join" >>,
      relocation |-> << "relocation", "willing to relocate", "move city" >> ]

labelMatchesCategory(label, category) ==
    LET norm == normalizeLabel(label)
        words == IF category \in DOMAIN synonyms THEN synonyms[category] ELSE << category >>
    IN  \E i \in 1..Len(words) : Includes(norm, normalizeLabel(words[i]))

subjectiveKeywords ==
    << "why", "what", "how", "describe", "explain", "tell us", "interest",
       "motivation", "passion", "goal", "objective", "strength", "weakness",
       "challenge", "experience", "story", "example", "situation" >>

isSubjectiveQuestion(fieldText) ==
    \E i \in 1..Len(subjectiveKeywords) : Includes(fieldText, subjectiveKeywords[i])

---------------------------------------------------------------------------
(* Data: the profile, the pages, what the service may answer *)

NoProfile == [k \in {} |-> ""]

\* The profiles AIService.initialize may load from storage
Profiles == { NoProfile, [name |-> "Jane Doe"] }

\* FormField records as detectFormFields builds them
FieldName  == [tag |-> "INPUT", type |-> "text", name |-> "fullname", id |-> "",
               placeholder |-> "", label |-> "Full Name", editable |-> FALSE,
               options |-> << >>]
FieldWhy   == [tag |-> "TEXTAREA", type |-> "textarea", name |-> "", id |-> "",
               placeholder |-> "", label |-> "Why join us?", editable |-> FALSE,
               options |-> << >>]

FieldCatalog == { FieldName, FieldWhy }

\* A select with two options, and the profiles that name one of them or neither
FieldCountry == [tag |-> "SELECT", type |-> "select-one", name |-> "country", id |-> "",
                 placeholder |-> "", label |-> "Country", editable |-> FALSE,
                 options |-> << [value |-> "in", text |-> "India"],
                                [value |-> "us", text |-> "United States"] >>]

SelectProfiles == { [country |-> "India"], [country |-> "Germany"] }

SelectPages == { << FieldCountry >>, << FieldCountry, FieldName >>,
                 << FieldName, FieldCountry >> }

\* Every field and every profile of the model
AllFields == FieldCatalog \cup { FieldCountry }
AllProfiles == Profiles \cup SelectProfiles \cup { [name |-> "Ann"] }

\* The documents of the model: every sequence of at most two of these fields
Pages == UNION { [1..n -> FieldCatalog] : n \in {0, 1, 2} }

\* message.content of a successful response
Contents == { "{\"field_0\":\"Ann\"}", " Blue " }

\* Statuses of a response: 2xx, 429, 5xx, another 4xx
Statuses == { "ok", "r429", "r5xx", "r4xx" }

\* retry-after header of a 429: absent, or a number of seconds
RetryAfterHeaders == { "", "1" }

UsageModes == { "auto", "conservative", "off" }

---------------------------------------------------------------------------
(* JSON.parse and the regular expression of generateValuesForFields, for   *)
(* objects of string members written without white space or escapes        *)

IndexOf(s, c, from) ==
    LET hits == { i \in from..Len(s) : SubSeq(s, i, i) = c }
    IN  IF hits = {} THEN 0 ELSE CHOOSE i \in hits : \A j \in hits : i <= j

LastIndexOf(s, c) ==
    LET hits == { i \in 1..Len(s) : SubSeq(s, i, i) = c }
    IN  IF hits = {} THEN 0 ELSE CHOOSE i \in hits : \A j \in hits : i >= j

\* members of an object: a sequence of <<key, value>>, or <<"error">>
RECURSIVE ParseMembers(_)
ParseMembers(t) ==
    IF Slice(t, 1, 1) # "\"" THEN << "error" >>
    ELSE LET k2 == IndexOf(t, "\"", 2)
         IN  IF k2 = 0 \/ Slice(t, k2, k2 + 2) # "\":\"" THEN << "error" >>
             ELSE LET v2 == IndexOf(t, "\"", k2 + 3)
                      pair == << Slice(t, 2, k2 - 1), Slice(t, k2 + 3, v2 - 1) >>
                  IN  IF v2 = 0 THEN << "error" >>
                      ELSE IF v2 = Len(t) THEN << pair >>
                      ELSE IF Slice(t, v2 + 1, v2 + 1) # "," THEN << "error" >>
                      ELSE LET rest == ParseMembers(Slice(t, v2 + 2, Len(t)))
                           IN  IF rest = << "error" >> THEN rest ELSE << pair >> \o rest

\* JSON.parse: [ok, obj]; obj maps each key to the value of its last member
JSONparse(s) ==
    LET inner == Slice(s, 2, Len(s) - 1)
        members == IF inner = "" THEN << >> ELSE ParseMembers(inner)
        good == /\ Len(s) >= 2
                /\ SubSeq(s, 1, 1) = "{"
                /\ SubSeq(s, Len(s), Len(s)) = "}"
                /\ members # << "error" >>
        keys == { members[i][1] : i \in 1..Len(members) }
    IN  IF ~good THEN [ok |-> FALSE, obj |-> NoProfile]
        ELSE [ok |-> TRUE,
              obj |-> [k \in keys |->
                         LET last == CHOOSE i \in 1..Len(members) :
                                       /\ members[i][1] = k
                                       /\ \A j \in 1..Len(members) : members[j][1] = k => j <= i
                         IN  members[last][2]]]

\* json.match(/\{[\s\S]*\}/): the text from the first "{" to the last "}" ("" when no match)
matchBraces(json) ==
    LET a == IndexOf(json, "{", 1)
        b == LastIndexOf(json, "}")
    IN  IF a # 0 /\ b > a THEN SubSeq(json, a, b) ELSE ""

\* The two parse attempts of generateValuesForFields: [ok, obj]
parseJson(json) ==
    LET direct == JSONparse(json)
        m == matchBraces(json)
    IN  IF direct.ok THEN direct
        ELSE IF m # "" THEN JSONparse(m)
        ELSE [ok |-> FALSE, obj |-> NoProfile]

\* parseJson of every answer of the model, computed once
parseBulkOf == [c \in { trim(content) : content \in Contents } |-> parseJson(c)]
parseBulk(json) == parseBulkOf[json]

---------------------------------------------------------------------------
(* Value resolver: direct mapping and the per-field decision *)

\* Number.prototype.toString
RECURSIVE NumString(_)
NumString(n) ==
    IF n < 10 THEN IndexString(n) ELSE NumString(n \div 10) \o IndexString(n % 10)

\* Variant: address is tried before name and email
mappingOrder_AddressFirst ==
    << "address", "name", "email", "phone", "city", "state", "zipCode", "country",
       "dateOfBirth", "linkedin", "github", "portfolio", "experience", "education",
       "skills", "salary", "availability" >>

\* const mappingOrder: the keys, in the order of the array
mappingOrder ==
    << "name", "email", "phone", "address", "city", "state", "zipCode", "country",
       "dateOfBirth", "linkedin", "github", "portfolio", "experience", "education",
       "skills", "salary", "availability" >>

\* The value paired with a key in mappingOrder ("" models undefined)
mappingValue(ud, key) ==
    IF key \notin DOMAIN ud THEN ""
    ELSE IF key = "skills" THEN join(ud[key], ", ")
    ELSE ud[key]

\* `${field.label} ${field.placeholder} ${field.name} ${field.id}`, normalized
fieldText4(field) ==
    normalizeLabel(field.label \o " " \o field.placeholder \o " " \o field.name
                   \o " " \o field.id)

\* `${field.label} ${field.placeholder} ${field.name}`, normalized
fieldText3(field) ==
    normalizeLabel(field.label \o " " \o field.placeholder \o " " \o field.name)

\* The loop over mappingOrder followed by the relocation case
directMapping(fieldText, ud) ==
    LET hits == { i \in 1..Len(mappingOrder) :
                    /\ mappingValue(ud, mappingOrder[i]) # ""
                    /\ labelMatchesCategory(fieldText, mappingOrder[i]) }
        first == CHOOSE i \in hits : \A j \in hits : i <= j
    IN  IF hits # {} THEN mappingValue(ud, mappingOrder[first])
        ELSE IF labelMatchesCategory(fieldText, "relocation")
             THEN (IF "relocation" \in DOMAIN ud /\ ud["relocation"] = TRUE
                   THEN "Yes" ELSE "No")
        ELSE ""

tryMapWithoutAI(field, ud) == directMapping(fieldText4(field), ud)

\* getFieldValue up to its generative call: a value, or the call it makes
getFieldValue(field, ud) ==
    LET fieldText == fieldText4(field)
        mapped == directMapping(fieldText, ud)
    IN  IF mapped # "" THEN [kind |-> "value", value |-> mapped, cacheKey |-> ""]
        ELSE IF Includes(fieldText, "time") /\ Includes(fieldText, "interview")
             THEN [kind |-> "value",
                   value |-> Or2(mappingValue(ud, "availability"),
                                 "I am flexible and available during business hours"),
                   cacheKey |-> ""]
        ELSE IF isSubjectiveQuestion(fieldText)
             THEN [kind |-> "subjective", value |-> "",
                   cacheKey |-> "subjective_" \o fieldText]
        ELSE [kind |-> "infer", value |-> "", cacheKey |-> "infer_" \o fieldText]

\* tryMapWithoutAI, fieldText3 and getFieldValue of every field and profile of the
\* model, computed once
tryMapOf == [f \in AllFields |-> [ud \in AllProfiles |-> tryMapWithoutAI(f, ud)]]
labelOf == [f \in AllFields |-> fieldText3(f)]
subjectiveOf == [f \in AllFields |-> isSubjectiveQuestion(fieldText3(f))]
planOf == [f \in AllFields |-> [ud \in AllProfiles |-> getFieldValue(f, ud)]]

\* The cache key of generateValuesForFields
bulkCacheKey(fs) ==
    "bulk_" \o join([i \in 1..Len(fs) |->
                       Or2(fs[i].label, Or2(fs[i].placeholder, Or2(fs[i].name, fs[i].id)))],
                    "|")

\* The alternatives of each regular expression of inferProfileKeyFromLabel
\* (linked\s*in is written out for no and for one white space)
learnTests ==
    << << {"email", "e-mail", "mail"}, "email" >>,
       << {"name", "full name", "first name", "last name"}, "name" >>,
       << {"phone", "mobile", "contact number", "tel"}, "phone" >>,
       << {"linkedin", "linked in"}, "linkedin" >>,
       << {"github"}, "github" >>,
       << {"portfolio", "website", "url"}, "portfolio" >>,
       << {"address"}, "address" >>,
       << {"city"}, "city" >>,
       << {"state", "province"}, "state" >>,
       << {"zip", "postal"}, "zipCode" >>,
       << {"country"}, "country" >>,
       << {"availability", "available"}, "availability" >>,
       << {"salary", "ctc", "compensation"}, "salary" >> >>

\* inferProfileKeyFromLabel ("" models null)
inferProfileKeyFromLabel(label) ==
    LET hits == { i \in 1..Len(learnTests) : \E w \in learnTests[i][1] : Includes(label, w) }
        first == CHOOSE i \in hits : \A j \in hits : i <= j
    IN  IF hits = {} THEN "" ELSE learnTests[first][2]

---------------------------------------------------------------------------
(* Messages of the errors thrown and collected *)

MsgNoKey == "OpenAI API key not set"
MsgCooldown(waitSeconds) ==
    "OpenAI rate limited. Try again in ~" \o NumString(waitSeconds) \o "s"
MsgRateLimited == "OpenAI rate limited"
MsgApi(status) ==
    "OpenAI API error (" \o status \o ")"
MsgPassRateLimited == "OpenAI rate limited. Please wait and try again."

\* response.status of the modelled statuses
StatusCode(status) ==
    CASE status = "r429" -> "429"
      [] status = "r5xx" -> "500"
      [] status = "r4xx" -> "400"
      [] OTHER -> "200"

---------------------------------------------------------------------------
(* State *)

\* bulkValues = null
NullValues == [isNull |-> TRUE, obj |-> NoProfile]

NoCall == [kind |-> "none", cacheKey |-> "", cont |-> "none", covers |-> {}]
NoRet == [ok |-> TRUE, value |-> ""]
NoReport == [returned |-> FALSE]
NoPopup == [suggested |-> << >>, sensitive |-> {}, formStats |-> 0,
            unticked |-> {}]   \* the keys the user has unticked since the popup
                               \* opened or last saved
NoInput == [kind |-> "none"]
NoOutput == [kind |-> "none"]

\* AIService.initialize: the service holds what the storage held
Initialized ==
    stored = [openaiApiKey |-> apiKey, userData |-> userData,
              sensitiveKeys |-> sensitiveKeys, usageMode |-> usageMode]

\* Where the pass awaits a response or a timer: other handlers and the clock run
Yield == { "idle", "fetch1", "delay", "fetch2" }

\* Other handlers and the clock may run (after the last pass of the model nothing
\* reads what they change)
MayInterleave == pc \in Yield /\ (pc = "idle" => hist.passes < MaxPasses)

\* History of the pass (reset when a pass starts) and of the last call
NoHist ==
    [ passMode |-> "none",     \* usageMode when the pass started
      reqs |-> 0,              \* network requests issued by the pass
      calls |-> 0,             \* generative calls made by the pass
      bulkCalls |-> 0,         \* bulk calls made by the pass
      bulkRet |-> "none",      \* how the bulk call ended: ok, ratelimit, error
      fallback |-> FALSE,      \* the parse fallback was entered
      fbFailed |-> FALSE,      \* a call of the parse fallback threw
      callReqs |-> 0,          \* network requests issued by the last call
      callStatuses |-> << >>,  \* statuses of the responses the last call received
      callFetched |-> << >>,   \* the 2xx answer fetched for the key of the last call
                               \* before it began, if any
      callHadCache |-> FALSE,  \* the cache held the key when the last call began
      callCached |-> "",       \* and the answer it held
      callCooling |-> FALSE,   \* a cooldown was running when the last call began
      flog |-> << >> ]         \* per field of the loop: how its value was resolved

NoRateLimit == [at |-> 0, secs |-> 0, blocked |-> FALSE]

\* Per element: its value, whether a value was written to it, the events dispatched
\* on it, and whether a value was offered to it that none of its options contains
EmptyDom(n) ==
    [i \in 1..n |-> [value |-> "", written |-> FALSE, events |-> << >>,
                     missed |-> FALSE]]

Init ==
    /\ apiKey \in { "", "sk-test" }
    /\ userData \in Profiles
    /\ cache = NoProfile
    /\ rateLimitedUntilMs = 0
    /\ sensitiveKeys = {}
    /\ usageMode \in UsageModes
    /\ now = 0
    /\ page \in Pages
    /\ dom = EmptyDom(Len(page))
    /\ pc = "idle"
    /\ fields = << >>
    /\ results = [filled |-> 0, total |-> 0, errors |-> << >>]
    /\ bulkValues = NullValues
    /\ fieldIndex = 0
    /\ fieldPos = 0
    /\ learned = << >>
    /\ fb = [index |-> 0, result |-> NoProfile]
    /\ call = NoCall
    /\ ret = NoRet
    /\ report = NoReport
    /\ Initialized
    /\ popup = NoPopup
    /\ input = NoInput
    /\ output = NoOutput
    /\ hist = [pass |-> NoHist,      \* the current pass and its last call
               rl |-> NoRateLimit,   \* the last 429: when, its retry hint, and whether
                                     \* a call began before the hint had elapsed
               passes |-> 0,         \* passes started
               fetched |-> NoProfile] \* the last 2xx answer per cache key, since
                                      \* clearCache

service == << apiKey, userData, sensitiveKeys >>
aside == << stored, popup, input, output >>
passVars == << fields, results, bulkValues, fieldIndex, fieldPos, learned, fb, dom,
              report >>

---------------------------------------------------------------------------
(* callOpenAI *)

\* Where control goes when the call returns or throws
RetPc(cont) ==
    CASE cont = "bulk" -> "bulkRet"
      [] cont = "fb" -> "fbRet"
      [] cont = "field" -> "fieldRet"

\* Variant: the cooldown is never consulted
cooldownActive_Ignored == FALSE

\* this.rateLimitedUntilMs && Date.now() < this.rateLimitedUntilMs
cooldownActive == rateLimitedUntilMs # 0 /\ now < rateLimitedUntilMs

\* cacheKey && this.cache.has(cacheKey)
cacheHit == call.cacheKey # "" /\ call.cacheKey \in DOMAIN cache

\* parseInt(retryAfterHeader, 10) of a header of digits
RECURSIVE parseInt(_)
parseInt(h) ==
    IF h = "" THEN 0
    ELSE 10 * parseInt(SubSeq(h, 1, Len(h) - 1))
         + (CHOOSE d \in 0..9 : IndexString(d) = SubSeq(h, Len(h), Len(h)))

DefaultRetrySeconds == 30

\* retryAfterHeader ? parseInt(retryAfterHeader, 10) || 30 : 30
retrySeconds(header) ==
    IF header # "" /\ parseInt(header) # 0 THEN parseInt(header) ELSE DefaultRetrySeconds

\* Variant: the answer is stored under every key of the cache
cacheSet_EveryKey(key, answer) == [k \in DOMAIN cache \cup {key} |-> answer]

\* this.cache.set(cacheKey, answer)
cacheSet(key, answer) ==
    IF key = "" THEN cache
    ELSE [k \in DOMAIN cache \cup {key} |-> IF k = key THEN answer ELSE cache[k]]

\* What the history records when a call begins
CallBegins(h) ==
    [h EXCEPT !.pass.callReqs = 0,
              !.pass.callFetched = IF call.cacheKey \in DOMAIN h.fetched
                                   THEN << h.fetched[call.cacheKey] >> ELSE << >>,
              !.pass.calls = @ + 1,
              !.pass.callStatuses = << >>,
              !.pass.callHadCache = call.cacheKey \in DOMAIN cache,
              !.pass.callCached = IF call.cacheKey \in DOMAIN cache
                                  THEN cache[call.cacheKey] ELSE "",
              !.pass.callCooling = now < h.rl.at + h.rl.secs,
              !.rl.blocked = @ \/ now < h.rl.at + h.rl.secs]

Requested(h) ==
    [h EXCEPT !.pass.reqs = @ + 1, !.pass.callReqs = @ + 1]

Received(h, status, content) ==
    [h EXCEPT !.pass.callStatuses = Append(@, status),
              !.fetched = IF status = "ok"
                          THEN [k \in DOMAIN @ \cup { call.cacheKey } |->
                                  IF k = call.cacheKey THEN trim(content) ELSE @[k]]
                          ELSE @]

\* The retry hint of a 429 as the service means it: the seconds of its retry-after
\* header, 30 when the header is absent or 0
RetryHint(header) ==
    CASE header = "" -> 30
      [] header = "1" -> 1

\* The checks before the first attempt, and the first attempt
callOpenAI ==
    /\ pc = "call"
    /\ IF apiKey = ""
       THEN /\ ret' = [ok |-> FALSE, value |-> MsgNoKey]
            /\ pc' = RetPc(call.cont)
            /\ hist' = CallBegins(hist)
       ELSE IF cooldownActive
       THEN /\ ret' = [ok |-> FALSE, value |-> MsgCooldown(rateLimitedUntilMs - now)]
            /\ pc' = RetPc(call.cont)
            /\ hist' = CallBegins(hist)
       ELSE IF cacheHit
       THEN /\ ret' = [ok |-> TRUE, value |-> cache[call.cacheKey]]
            /\ pc' = RetPc(call.cont)
            /\ hist' = CallBegins(hist)
       ELSE /\ pc' = "fetch1"
            /\ hist' = Requested(CallBegins(hist))
            /\ UNCHANGED ret
    /\ UNCHANGED << service, aside, cache, rateLimitedUntilMs, usageMode, now, page, call, passVars >>

\* Variant: every failed first attempt is retried
shouldRetry_AnyFailure(status) == status # "ok"

\* !response.ok && response.status >= 500
shouldRetry(status) == status = "r5xx"

\* The response to the first attempt
callOpenAIResponse(status, content, header) ==
    /\ pc = "fetch1"
    /\ hist' = IF status = "r429"
               THEN [Received(hist, status, content) EXCEPT
                        !.rl = [at |-> now, secs |-> RetryHint(header), blocked |-> FALSE]]
               ELSE Received(hist, status, content)
    /\ IF status = "r429"
       THEN /\ rateLimitedUntilMs' = now + retrySeconds(header)
            /\ ret' = [ok |-> FALSE, value |-> MsgRateLimited]
            /\ pc' = RetPc(call.cont)
            /\ UNCHANGED cache
       ELSE IF shouldRetry(status)
       THEN /\ pc' = "delay"
            /\ UNCHANGED << rateLimitedUntilMs, ret, cache >>
       ELSE IF status # "ok"
       THEN /\ ret' = [ok |-> FALSE, value |-> MsgApi(StatusCode(status))]
            /\ pc' = RetPc(call.cont)
            /\ UNCHANGED << rateLimitedUntilMs, cache >>
       ELSE /\ cache' = cacheSet(call.cacheKey, trim(content))
            /\ ret' = [ok |-> TRUE, value |-> trim(content)]
            /\ pc' = RetPc(call.cont)
            /\ UNCHANGED rateLimitedUntilMs
    /\ UNCHANGED << service, aside, usageMode, now, page, call, passVars >>

\* The retry after the 500 ms timer
callOpenAIRetry ==
    /\ pc = "delay"
    /\ pc' = "fetch2"
    /\ hist' = Requested(hist)
    /\ UNCHANGED << service, aside, cache, rateLimitedUntilMs, usageMode, now, page, call, ret,
                    passVars >>

\* The response to the retry
callOpenAIRetryResponse(status, content) ==
    /\ pc = "fetch2"
    /\ hist' = Received(hist, status, content)
    /\ pc' = RetPc(call.cont)
    /\ IF status = "ok"
       THEN /\ cache' = cacheSet(call.cacheKey, trim(content))
            /\ ret' = [ok |-> TRUE, value |-> trim(content)]
       ELSE /\ ret' = [ok |-> FALSE, value |-> MsgApi(StatusCode(status))]
            /\ UNCHANGED cache
    /\ UNCHANGED << service, aside, rateLimitedUntilMs, usageMode, now, page, call, passVars >>

---------------------------------------------------------------------------
(* fillForm *)

\* `field_${index}`
fieldKey(index) == "field_" \o NumString(index)

\* The first option whose value or text contains the value, 0 when none
matchingOption(options, value) ==
    LET hits == { i \in 1..Len(options) :
                    \/ Includes(toLowerCase(options[i].value), toLowerCase(value))
                    \/ Includes(toLowerCase(options[i].text), toLowerCase(value)) }
    IN  IF hits = {} THEN 0 ELSE CHOOSE i \in hits : \A j \in hits : i <= j

\* The element (number el of the page) after a non-empty value is written to it
writeElement(field, d, value) ==
    LET opt == matchingOption(field.options, value)
        shown == IF field.tag = "SELECT"
                 THEN (IF opt # 0 THEN field.options[opt].value ELSE d.value)
                 ELSE value
    IN  [value |-> shown,
         written |-> IF field.tag = "SELECT" THEN d.written \/ opt # 0 ELSE TRUE,
         events |-> d.events \o << "input", "change" >>,
         missed |-> field.tag = "SELECT" /\ opt = 0]

\* Variant: the sensitive keys are not consulted
suggestion_IgnoresSensitive(field, value) ==
    LET label == toLowerCase(Or2(field.label, Or2(field.placeholder, field.name)))
        inferredKey == inferProfileKeyFromLabel(label)
    IN  IF inferredKey # "" /\ inferredKey \notin DOMAIN userData
        THEN << [key |-> inferredKey, label |-> inferredKey, value |-> value] >>
        ELSE << >>

\* The suggestion fillForm adds for a filled field, << >> when it adds none
suggestion(field, value) ==
    LET label == toLowerCase(Or2(field.label, Or2(field.placeholder, field.name)))
        inferredKey == inferProfileKeyFromLabel(label)
    IN  IF /\ inferredKey # ""
           /\ inferredKey \notin DOMAIN userData
           /\ inferredKey \notin sensitiveKeys
        THEN << [key |-> inferredKey, label |-> inferredKey, value |-> value] >>
        ELSE << >>

\* if (value) { ... }: the write, the notifications, the count, the suggestion
fillField(value) ==
    LET el == fieldPos + 1
    IN  IF value = ""
        THEN UNCHANGED << dom, results, learned >>
        ELSE /\ dom' = [dom EXCEPT ![el] = writeElement(fields[el], @, value)]
             /\ results' = [results EXCEPT !.filled = @ + 1]
             /\ learned' = learned \o suggestion(fields[el], value)

\* The history once the caller has taken what the last call returned
Taken(h) ==
    [h EXCEPT !.pass.callReqs = 0,
              !.pass.callStatuses = << >>,
              !.pass.callFetched = << >>,
              !.pass.callHadCache = FALSE,
              !.pass.callCached = "",
              !.pass.callCooling = FALSE]

Logged(h, src, failed) ==
    [h EXCEPT !.pass.flog = Append(@, [src |-> src, mode |-> usageMode,
                                       failed |-> failed])]

\* generateValuesForFields up to its call: the cache key, and the fields (by
\* index) that the schema of the prompt lists
generateValuesForFields(fs) ==
    [kind |-> "bulk", cacheKey |-> bulkCacheKey(fs), cont |-> "bulk",
     covers |-> { i - 1 : i \in 1..Len(fs) }]

\* Variant: every mode but conservative starts with the bulk call
bulkFirst_UnlessConservative(mode) == mode # "conservative"

\* if (this.usageMode === 'auto'): the pass starts with the bulk call
bulkFirst(mode) == mode = "auto"

\* FormFiller.fillForm and AIService.fillForm up to the bulk call
fillForm ==
    /\ pc = "idle"
    /\ hist.passes < MaxPasses
    /\ fields' = page
    /\ results' = [filled |-> 0, total |-> Len(page), errors |-> << >>]
    /\ bulkValues' = NullValues
    /\ fieldIndex' = 0
    /\ fieldPos' = 0
    /\ learned' = << >>
    /\ fb' = [index |-> 0, result |-> NoProfile]
    /\ dom' = EmptyDom(Len(page))
    /\ report' = NoReport
    /\ ret' = NoRet
    /\ IF bulkFirst(usageMode)
       THEN /\ call' = generateValuesForFields(page)
            /\ pc' = "call"
            /\ hist' = [hist EXCEPT !.passes = @ + 1,
                                    !.pass = [NoHist EXCEPT !.passMode = usageMode,
                                                            !.bulkCalls = 1]]
       ELSE /\ call' = NoCall
            /\ pc' = "loop"
            /\ hist' = [hist EXCEPT !.passes = @ + 1,
                                    !.pass = [NoHist EXCEPT !.passMode = usageMode]]
    /\ UNCHANGED << service, aside, cache, rateLimitedUntilMs, usageMode, now, page >>

\* FormFiller.fillForm: what it answers for the results of AIService.fillForm
formFillerReply(res, early, suggested) ==
    [returned |-> TRUE,
     early |-> early,
     success |-> res.filled # 0 \/ res.total > 0,
     hasStats |-> res.filled # 0 \/ res.total > 0,
     filled |-> res.filled,
     total |-> res.total,
     errors |-> res.errors,
     suggestedProfileUpdates |-> suggested]

\* The pass returns before its loop with one error
returnRateLimited ==
    /\ results' = [results EXCEPT !.errors = Append(@, MsgPassRateLimited)]
    /\ report' = formFillerReply([results EXCEPT !.errors = Append(@, MsgPassRateLimited)],
                                 TRUE, << >>)
    /\ pc' = "idle"

\* Variant: every failure of the bulk step ends the pass
isRateLimitMessage_AnyError(message) == TRUE

\* message.toLowerCase().includes('rate limited')
isRateLimitMessage(message) == Includes(toLowerCase(message), "rate limited")

\* generateValuesForFields after its call, and the catch of fillForm around it
bulkReturn ==
    /\ pc = "bulkRet"
    /\ IF ~ret.ok
       THEN /\ hist' = [Taken(hist) EXCEPT !.pass.bulkRet =
                          IF isRateLimitMessage(ret.value) THEN "ratelimit" ELSE "error"]
            /\ IF isRateLimitMessage(ret.value)
               THEN returnRateLimited
               ELSE /\ pc' = "loop"
                    /\ UNCHANGED << results, report >>
            /\ UNCHANGED << bulkValues, fb >>
       ELSE /\ IF parseBulk(ret.value).ok
               THEN /\ bulkValues' = [isNull |-> FALSE, obj |-> parseBulk(ret.value).obj]
                    /\ pc' = "loop"
                    /\ hist' = [Taken(hist) EXCEPT !.pass.bulkRet = "ok"]
                    /\ UNCHANGED fb
               ELSE /\ fb' = [index |-> 0, result |-> NoProfile]
                    /\ pc' = "fb"
                    /\ hist' = [Taken(hist) EXCEPT !.pass.bulkRet = "ok",
                                                   !.pass.fallback = TRUE]
                    /\ UNCHANGED bulkValues
            /\ UNCHANGED << results, report >>
    /\ call' = NoCall
    /\ ret' = NoRet
    /\ UNCHANGED << service, aside, cache, rateLimitedUntilMs, usageMode, now, page,
                    fields, fieldIndex, fieldPos, learned, dom >>

\* result[`field_${index}`] = value
fbSet(key, value) ==
    [k \in DOMAIN fb.result \cup {key} |-> IF k = key THEN value ELSE fb.result[k]]

\* One turn of the fallback loop of generateValuesForFields, up to its call
fallbackStep ==
    /\ pc = "fb"
    /\ IF fb.index = Len(fields)
       THEN /\ bulkValues' = [isNull |-> FALSE, obj |-> fb.result]
            /\ pc' = "loop"
            /\ UNCHANGED << fb, call >>
       ELSE LET plan == planOf[fields[fb.index + 1]][userData]
            IN  IF plan.kind = "value"
                THEN /\ fb' = [index |-> fb.index + 1,
                               result |-> fbSet(fieldKey(fb.index), plan.value)]
                     /\ UNCHANGED << bulkValues, pc, call >>
                ELSE /\ call' = [kind |-> plan.kind, cacheKey |-> plan.cacheKey,
                                 cont |-> "fb", covers |-> { fb.index }]
                     /\ pc' = "call"
                     /\ UNCHANGED << bulkValues, fb >>
    /\ UNCHANGED << service, aside, cache, rateLimitedUntilMs, usageMode, now, page, ret, hist,
                    fields, results, fieldIndex, fieldPos, learned, dom,
                    report >>

\* The fallback loop after a call of getFieldValue; a throw leaves
\* generateValuesForFields and reaches the catch of fillForm
fallbackReturn ==
    /\ pc = "fbRet"
    /\ IF ret.ok
       THEN /\ fb' = [index |-> fb.index + 1,
                      result |-> fbSet(fieldKey(fb.index), ret.value)]
            /\ pc' = "fb"
            /\ UNCHANGED << results, report >>
       ELSE /\ IF isRateLimitMessage(ret.value)
               THEN returnRateLimited
               ELSE /\ pc' = "loop"
                    /\ UNCHANGED << results, report >>
            /\ UNCHANGED fb
    /\ call' = NoCall
    /\ ret' = NoRet
    /\ hist' = [Taken(hist) EXCEPT !.pass.fbFailed = ~ret.ok]
    /\ UNCHANGED << service, aside, cache, rateLimitedUntilMs, usageMode, now, page,
                    fields, bulkValues, fieldIndex, fieldPos, learned, dom >>

\* `Error filling ${field.label || field.name}: ${error}`
MsgField(field, message) ==
    "Error filling " \o Or2(field.label, field.name) \o ": Error: " \o message

\* Variant: the conservative branch asks for every field it reaches
conservativeValue_AlwaysAsks(field) ==
    [kind |-> "subjective", value |-> "",
     cacheKey |-> "subjective_" \o labelOf[field], src |-> "subjective"]

\* The conservative branch: a subjective call for a subjective label, else blank
conservativeValue(field) ==
    IF subjectiveOf[field]
    THEN [kind |-> "subjective", value |-> "",
          cacheKey |-> "subjective_" \o labelOf[field], src |-> "subjective"]
    ELSE [kind |-> "value", value |-> "", cacheKey |-> "", src |-> "blank"]

\* The body of the try of the loop up to its generative call: the value of the
\* field (kind "value") or the call made for it, with where the value comes from
resolveField(mode, bulk, index, field, ud) ==
    LET mapped == tryMapOf[field][ud]
        plan == planOf[field][ud]
    IN  IF ~bulk.isNull /\ fieldKey(index) \in DOMAIN bulk.obj
        THEN [kind |-> "value", value |-> bulk.obj[fieldKey(index)], cacheKey |-> "",
              src |-> "bulk"]
        ELSE IF mapped # ""
        THEN [kind |-> "value", value |-> mapped, cacheKey |-> "", src |-> "mapped"]
        ELSE IF mode = "conservative" THEN conservativeValue(field)
        ELSE IF mode = "off"
        THEN [kind |-> "value", value |-> "", cacheKey |-> "", src |-> "blank"]
        ELSE [kind |-> plan.kind, value |-> plan.value, cacheKey |-> plan.cacheKey,
              src |-> IF plan.kind = "value" THEN "special" ELSE plan.kind]

\* Variant: fieldIndex is incremented inside the try, after the fill
fieldIndexAfter_UnlessThrown(index, threw) == IF threw THEN index ELSE index + 1

\* fieldIndex++ after the try and its catch
fieldIndexAfter(index, threw) == index + 1

\* One turn of the loop of fillForm, up to its generative call
fillFormField ==
    /\ pc = "loop"
    /\ fieldPos < Len(fields)
    /\ LET r == resolveField(usageMode, bulkValues, fieldIndex, fields[fieldPos + 1],
                             userData)
       IN  IF r.kind = "value"
           THEN /\ fillField(r.value)
                /\ fieldIndex' = fieldIndexAfter(fieldIndex, FALSE)
                /\ fieldPos' = fieldPos + 1
                /\ hist' = Logged(hist, r.src, FALSE)
                /\ UNCHANGED << pc, call >>
           ELSE /\ call' = [kind |-> r.kind, cacheKey |-> r.cacheKey, cont |-> "field",
                            covers |-> { fieldPos }]
                /\ pc' = "call"
                /\ UNCHANGED << dom, results, learned, fieldIndex, fieldPos, hist >>
    /\ UNCHANGED << service, aside, cache, rateLimitedUntilMs, usageMode, now, page, ret,
                    fields, bulkValues, fb, report >>

\* Variant: the catch of the loop drops the error
catchError_Dropped(res, entry) == res

\* results.errors.push(...) in the catch of the loop
catchError(res, entry) == [res EXCEPT !.errors = Append(@, entry)]

\* The loop of fillForm after the generative call of a field
fillFormFieldReturn ==
    /\ pc = "fieldRet"
    /\ IF ret.ok
       THEN fillField(ret.value)
       ELSE /\ results' = catchError(results, MsgField(fields[fieldPos + 1], ret.value))
            /\ UNCHANGED << dom, learned >>
    /\ fieldIndex' = fieldIndexAfter(fieldIndex, ~ret.ok)
    /\ fieldPos' = fieldPos + 1
    /\ pc' = "loop"
    /\ hist' = Logged(Taken(hist), call.kind, ~ret.ok)
    /\ call' = NoCall
    /\ ret' = NoRet
    /\ UNCHANGED << service, aside, cache, rateLimitedUntilMs, usageMode, now, page,
                    fields, bulkValues, fb, report >>

\* The end of fillForm: the suggestions are attached and the results returned
fillFormReturn ==
    /\ pc = "loop"
    /\ fieldPos = Len(fields)
    /\ report' = formFillerReply(results, FALSE, learned)
    /\ pc' = "idle"
    /\ UNCHANGED << service, aside, cache, rateLimitedUntilMs, usageMode, now, page, call, ret, hist,
                    fields, results, bulkValues, fieldIndex, fieldPos, learned, fb,
                    dom >>

---------------------------------------------------------------------------
(* The other handlers, and the clock *)

clearCache ==
    /\ MayInterleave
    /\ cache # NoProfile
    /\ cache' = NoProfile
    /\ hist' = [hist EXCEPT !.fetched = NoProfile]
    /\ UNCHANGED << service, aside, rateLimitedUntilMs, usageMode, now, page, pc, call, ret,
                    passVars >>

setUsageMode(mode) ==
    /\ MayInterleave
    /\ pc = "idle"
    /\ mode # usageMode
    /\ usageMode' = mode
    /\ stored' = [stored EXCEPT !.usageMode = mode]
    /\ UNCHANGED << service, popup, input, output, cache, rateLimitedUntilMs, now, page,
                    pc, call, ret, hist, passVars >>

\* Date.now() advances
Tick ==
    /\ MayInterleave
    /\ now < MaxTime
    /\ now' = now + 1
    /\ UNCHANGED << service, aside, cache, rateLimitedUntilMs, usageMode, page, pc, call, ret, hist,
                    passVars >>

Next ==
    \/ fillForm
    \/ callOpenAI
    \/ \E status \in Statuses, content \in Contents, header \in RetryAfterHeaders :
          callOpenAIResponse(status, content, header)
    \/ callOpenAIRetry
    \/ \E status \in Statuses, content \in Contents :
          callOpenAIRetryResponse(status, content)
    \/ bulkReturn
    \/ fallbackStep
    \/ fallbackReturn
    \/ fillFormField
    \/ fillFormFieldReturn
    \/ fillFormReturn
    \/ clearCache
    \/ \E mode \in UsageModes : setUsageMode(mode)
    \/ Tick

Spec == Init /\ [][Next]_vars

\* The same service on the pages that hold a select
InitSelect ==
    /\ apiKey = "sk-test"
    /\ userData \in SelectProfiles
    /\ cache = NoProfile
    /\ rateLimitedUntilMs = 0
    /\ sensitiveKeys = {}
    /\ usageMode \in UsageModes
    /\ now = 0
    /\ page \in SelectPages
    /\ dom = EmptyDom(Len(page))
    /\ pc = "idle"
    /\ fields = << >>
    /\ results = [filled |-> 0, total |-> 0, errors |-> << >>]
    /\ bulkValues = NullValues
    /\ fieldIndex = 0
    /\ fieldPos = 0
    /\ learned = << >>
    /\ fb = [index |-> 0, result |-> NoProfile]
    /\ call = NoCall
    /\ ret = NoRet
    /\ report = NoReport
    /\ Initialized
    /\ popup = NoPopup
    /\ input = NoInput
    /\ output = NoOutput
    /\ hist = [pass |-> NoHist, rl |-> NoRateLimit, passes |-> 0, fetched |-> NoProfile]

SpecSelect == InitSelect /\ [][Next]_vars

---------------------------------------------------------------------------
(* The popup and the storage: the page with its popup open and a key saved *)

\* The profiles and sensitive keys the storage may hold when the page loads
SensitiveKeySets == { {}, { "name" } }

InitAccount ==
    /\ apiKey = "sk-test"
    /\ userData \in Profiles
    /\ cache = NoProfile
    /\ rateLimitedUntilMs = 0
    /\ sensitiveKeys \in SensitiveKeySets
    /\ usageMode \in UsageModes
    /\ now = 0
    /\ page \in Pages
    /\ dom = EmptyDom(Len(page))
    /\ pc = "idle"
    /\ fields = << >>
    /\ results = [filled |-> 0, total |-> 0, errors |-> << >>]
    /\ bulkValues = NullValues
    /\ fieldIndex = 0
    /\ fieldPos = 0
    /\ learned = << >>
    /\ fb = [index |-> 0, result |-> NoProfile]
    /\ call = NoCall
    /\ ret = NoRet
    /\ report = NoReport
    /\ Initialized
    /\ popup = [NoPopup EXCEPT !.formStats = Len(page)]
    /\ input = NoInput
    /\ output = NoOutput
    /\ hist = [pass |-> NoHist, rl |-> NoRateLimit, passes |-> 0, fetched |-> NoProfile]

\* Popup.fillForm up to its message: the content script starts a pass
popupFillForm ==
    /\ stored.openaiApiKey # ""
    /\ ~report.returned
    /\ fillForm

\* What Popup.fillForm makes of the response: the suggestions it shows
suggestedAfter(response, suggested) ==
    IF response.success
    THEN (IF response.hasStats THEN response.suggestedProfileUpdates ELSE << >>)
    ELSE suggested

\* Variant: the popup saves the suggestions of the response at once
popupFillResponse_Saves ==
    /\ pc = "idle"
    /\ report.returned
    /\ popup' = [popup EXCEPT !.suggested = << >>]
    /\ stored' = [stored EXCEPT !.userData =
                    [k \in DOMAIN @ \cup { report.suggestedProfileUpdates[i].key :
                                              i \in 1..Len(report.suggestedProfileUpdates) } |->
                       IF k \in DOMAIN @ THEN @[k] ELSE "learned"]]
    /\ report' = NoReport
    /\ UNCHANGED << service, input, output, cache, rateLimitedUntilMs, usageMode,
                    now, page, pc, call, ret, hist, fields, results, bulkValues,
                    fieldIndex, fieldPos, learned, fb, dom >>

\* Popup.fillForm after its message: the response of the pass is taken
popupFillResponse ==
    /\ pc = "idle"
    /\ report.returned
    /\ popup' = [popup EXCEPT !.suggested = suggestedAfter(report, @)]
    /\ report' = NoReport
    /\ UNCHANGED << service, stored, input, output, cache, rateLimitedUntilMs, usageMode,
                    now, page, pc, call, ret, hist, fields, results, bulkValues,
                    fieldIndex, fieldPos, learned, fb, dom >>

\* data of Popup.saveLearned: the suggestions not ticked sensitive, the later entry
\* of a key over the earlier
learnedData(suggested, sensitive) ==
    LET kept == { i \in 1..Len(suggested) : suggested[i].key \notin sensitive }
        last(k) == CHOOSE i \in kept : /\ suggested[i].key = k
                                       /\ \A j \in kept : suggested[j].key = k => j <= i
    IN  [k \in { suggested[i].key : i \in kept } |-> suggested[last(k)].value]

\* { ...a, ...b }
spread(a, b) == [k \in DOMAIN a \cup DOMAIN b |-> IF k \in DOMAIN b THEN b[k] ELSE a[k]]

\* Popup.saveLearned: the user accepts the suggestions shown
saveLearned ==
    /\ pc \in Yield
    /\ popup.suggested # << >>
    /\ stored' = [stored EXCEPT
                    !.userData = spread(@, learnedData(popup.suggested, popup.sensitive)),
                    !.sensitiveKeys = popup.sensitive]
    /\ popup' = [popup EXCEPT !.suggested = << >>, !.unticked = {}]
    /\ UNCHANGED << service, input, output, cache, rateLimitedUntilMs, usageMode, now,
                    page, pc, call, ret, hist, passVars >>

\* Popup.changeMode: the new mode is stored
changeMode(newMode) ==
    /\ MayInterleave
    /\ newMode # stored.usageMode
    /\ stored' = [stored EXCEPT !.usageMode = newMode]
    /\ UNCHANGED << service, popup, input, output, cache, rateLimitedUntilMs, usageMode,
                    now, page, pc, call, ret, hist, passVars >>

\* Popup.detectForms and FormFiller.detectForms: the popup shows the count of the
\* fields found
detectForms ==
    /\ MayInterleave
    /\ popup' = [popup EXCEPT !.formStats = Len(page)]
    /\ UNCHANGED << service, stored, input, output, cache, rateLimitedUntilMs, usageMode,
                    now, page, pc, call, ret, hist, passVars >>

NextAccount ==
    \/ popupFillForm
    \/ callOpenAI
    \/ \E status \in Statuses, content \in Contents, header \in RetryAfterHeaders :
          callOpenAIResponse(status, content, header)
    \/ callOpenAIRetry
    \/ \E status \in Statuses, content \in Contents :
          callOpenAIRetryResponse(status, content)
    \/ bulkReturn
    \/ fallbackStep
    \/ fallbackReturn
    \/ fillFormField
    \/ fillFormFieldReturn
    \/ fillFormReturn
    \/ popupFillResponse
    \/ saveLearned
    \/ \E newMode \in UsageModes : changeMode(newMode)
    \/ detectForms

SpecAccount == InitAccount /\ [][NextAccount]_vars

\* The popup is opened: its state is that of a new Popup, and initializePopup has it
\* detect the forms; a response to an earlier popup is lost
openPopup ==
    /\ pc = "idle"
    /\ popup' = [NoPopup EXCEPT !.formStats = Len(page)]
    /\ report' = NoReport
    /\ UNCHANGED << service, stored, input, output, cache, rateLimitedUntilMs, usageMode,
                    now, page, pc, call, ret, hist, fields, results, bulkValues,
                    fieldIndex, fieldPos, learned, fb, dom >>

\* onChange of the check box of a suggestion: the key is ticked or unticked
setSensitive(key, checked) ==
    /\ pc \in Yield
    /\ \E i \in 1..Len(popup.suggested) : popup.suggested[i].key = key
    /\ checked # (key \in popup.sensitive)
    /\ popup' = [popup EXCEPT
                   !.sensitive = IF checked THEN @ \cup { key } ELSE @ \ { key },
                   !.unticked = IF checked THEN @ \ { key } ELSE @ \cup { key }]
    /\ UNCHANGED << service, stored, input, output, cache, rateLimitedUntilMs, usageMode,
                    now, page, pc, call, ret, hist, passVars >>

\* The page in auto mode with an empty profile, and the popup opened at will
InitPopup ==
    /\ apiKey = "sk-test"
    /\ userData = NoProfile
    /\ cache = NoProfile
    /\ rateLimitedUntilMs = 0
    /\ sensitiveKeys = {}
    /\ usageMode = "auto"
    /\ now = 0
    /\ page \in { << FieldName >>, << FieldName, FieldWhy >> }
    /\ dom = EmptyDom(Len(page))
    /\ pc = "idle"
    /\ fields = << >>
    /\ results = [filled |-> 0, total |-> 0, errors |-> << >>]
    /\ bulkValues = NullValues
    /\ fieldIndex = 0
    /\ fieldPos = 0
    /\ learned = << >>
    /\ fb = [index |-> 0, result |-> NoProfile]
    /\ call = NoCall
    /\ ret = NoRet
    /\ report = NoReport
    /\ Initialized
    /\ popup = [NoPopup EXCEPT !.formStats = Len(page)]
    /\ input = NoInput
    /\ output = NoOutput
    /\ hist = [pass |-> NoHist, rl |-> NoRateLimit, passes |-> 0, fetched |-> NoProfile]

NextPopup ==
    \/ NextAccount
    \/ openPopup
    \/ \E key \in { "name" }, checked \in BOOLEAN : setSensitive(key, checked)

SpecPopup == InitPopup /\ [][NextPopup]_vars

---------------------------------------------------------------------------
(* updateUserData and setSensitiveKeys *)

\* Partial<UserData>: per key it has, << >> for undefined or << value >>
NewNames == { << >>, << "Ann" >>, << "Bo" >> }
NewEmails == { << >>, << "a@x.io" >> }

NewData ==
    { NoProfile } \cup { [name |-> n] : n \in NewNames }
    \cup { [email |-> e] : e \in NewEmails }
    \cup { [name |-> n, email |-> e] : n \in NewNames, e \in NewEmails }

KeySets == SUBSET { "name", "email" }

\* Variant: the sensitive keys are not consulted
sanitized_All(newData, sensitive) ==
    [k \in { k \in DOMAIN newData : newData[k] # << >> } |-> newData[k][1]]

\* const sanitized: the entries whose key is not sensitive and whose value is defined
sanitized(newData, sensitive) ==
    [k \in { k \in DOMAIN newData : k \notin sensitive /\ newData[k] # << >> } |->
        newData[k][1]]

updateUserData(newData) ==
    /\ MayInterleave
    /\ pc = "idle"
    /\ userData' = spread(userData, sanitized(newData, sensitiveKeys))
    /\ stored' = [stored EXCEPT
                    !.userData = spread(userData, sanitized(newData, sensitiveKeys))]
    /\ input' = [kind |-> "updateUserData", newData |-> newData]
    /\ UNCHANGED << apiKey, sensitiveKeys, popup, output, cache, rateLimitedUntilMs,
                    usageMode, now, page, pc, call, ret, hist, passVars >>

setSensitiveKeys(keys) ==
    /\ MayInterleave
    /\ pc = "idle"
    /\ sensitiveKeys' = keys
    /\ stored' = [stored EXCEPT !.sensitiveKeys = keys]
    /\ input' = [kind |-> "setSensitiveKeys", keys |-> keys]
    /\ UNCHANGED << apiKey, userData, popup, output, cache, rateLimitedUntilMs,
                    usageMode, now, page, pc, call, ret, hist, passVars >>

\* The service after initialize, with no pass
InitProfile ==
    /\ apiKey = "sk-test"
    /\ userData \in Profiles
    /\ cache = NoProfile
    /\ rateLimitedUntilMs = 0
    /\ sensitiveKeys \in SensitiveKeySets
    /\ usageMode = "conservative"
    /\ now = 0
    /\ page = << >>
    /\ dom = EmptyDom(0)
    /\ pc = "idle"
    /\ fields = << >>
    /\ results = [filled |-> 0, total |-> 0, errors |-> << >>]
    /\ bulkValues = NullValues
    /\ fieldIndex = 0
    /\ fieldPos = 0
    /\ learned = << >>
    /\ fb = [index |-> 0, result |-> NoProfile]
    /\ call = NoCall
    /\ ret = NoRet
    /\ report = NoReport
    /\ Initialized
    /\ popup = NoPopup
    /\ input = NoInput
    /\ output = NoOutput
    /\ hist = [pass |-> NoHist, rl |-> NoRateLimit, passes |-> 0, fetched |-> NoProfile]

NextProfile ==
    \/ \E newData \in NewData : updateUserData(newData)
    \/ \E keys \in KeySets : setSensitiveKeys(keys)

SpecProfile == InitProfile /\ [][NextProfile]_vars

\* The service in auto mode, its profile updated between the passes
ReuseData == { [name |-> << "Ann" >>] }

InitReuse ==
    /\ apiKey = "sk-test"
    /\ userData \in Profiles
    /\ cache = NoProfile
    /\ rateLimitedUntilMs = 0
    /\ sensitiveKeys = {}
    /\ usageMode = "auto"
    /\ now = 0
    /\ page \in Pages
    /\ dom = EmptyDom(Len(page))
    /\ pc = "idle"
    /\ fields = << >>
    /\ results = [filled |-> 0, total |-> 0, errors |-> << >>]
    /\ bulkValues = NullValues
    /\ fieldIndex = 0
    /\ fieldPos = 0
    /\ learned = << >>
    /\ fb = [index |-> 0, result |-> NoProfile]
    /\ call = NoCall
    /\ ret = NoRet
    /\ report = NoReport
    /\ Initialized
    /\ popup = NoPopup
    /\ input = NoInput
    /\ output = NoOutput
    /\ hist = [pass |-> NoHist, rl |-> NoRateLimit, passes |-> 0, fetched |-> NoProfile]

NextReuse ==
    \/ fillForm
    \/ callOpenAI
    \/ \E status \in Statuses, content \in Contents, header \in RetryAfterHeaders :
          callOpenAIResponse(status, content, header)
    \/ callOpenAIRetry
    \/ \E status \in Statuses, content \in Contents :
          callOpenAIRetryResponse(status, content)
    \/ bulkReturn
    \/ fallbackStep
    \/ fallbackReturn
    \/ fillFormField
    \/ fillFormFieldReturn
    \/ fillFormReturn
    \/ clearCache
    \/ Tick
    \/ \E newData \in ReuseData : updateUserData(newData)

SpecReuse == InitReuse /\ [][NextReuse]_vars

---------------------------------------------------------------------------
(* Field discovery, label resolution and direct mapping, each on its own *)

\* Elements of a document modelled
MaxElements == 2

\* An element: its attributes and properties, and what the queries of getFieldLabel
\* and getNearbyPromptText find around it (the textContent of the node found, ""
\* when there is none)
PlainElement ==
    [ tag |-> "INPUT", type |-> "text", disabled |-> FALSE, readOnly |-> FALSE,
      required |-> FALSE, ariaRequired |-> FALSE, name |-> "", id |-> "",
      placeholder |-> "", ariaLabel |-> "", contenteditable |-> FALSE, role |-> "",
      labelFor |-> "",        \* document.querySelector(`label[for="${id}"]`)
      parentLabel |-> "",     \* closest('div, p, td, th')?.querySelector('label')
      labelledBy |-> << >>,   \* the elements aria-labelledby lists, in its order
      legend |-> "",          \* closest('fieldset')?.querySelector('legend')
      prevSibling |-> "",     \* previousElementSibling
      container |-> TRUE,     \* closest('div, section, form') exists
      prevHops |-> << >>,     \* per previous sibling, its first candidate node
      ancestors |-> << >> ]   \* per ancestor, its first candidate node

\* The kinds of element the documents are made of
ElementKinds ==
    { [PlainElement EXCEPT !.name = "fullname"],
      [PlainElement EXCEPT !.type = "email", !.ariaLabel = "Email"],
      [PlainElement EXCEPT !.type = "tel", !.ariaLabel = "Phone", !.disabled = TRUE],
      [PlainElement EXCEPT !.type = "email", !.readOnly = TRUE],
      [PlainElement EXCEPT !.type = "password", !.name = "pw"],
      [PlainElement EXCEPT !.tag = "TEXTAREA", !.type = "textarea", !.name = "why"],
      [PlainElement EXCEPT !.tag = "SELECT", !.type = "select-one", !.required = TRUE],
      [PlainElement EXCEPT !.tag = "DIV", !.type = "", !.contenteditable = TRUE,
                           !.ariaLabel = "Answer"] }

Documents == UNION { [1..n -> ElementKinds] : n \in 0..MaxElements }

\* const selectors: tag and, for inputs, the type attribute
selectors ==
    << [tag |-> "INPUT", type |-> "text"], [tag |-> "INPUT", type |-> "email"],
       [tag |-> "INPUT", type |-> "tel"], [tag |-> "INPUT", type |-> "url"],
       [tag |-> "INPUT", type |-> "number"], [tag |-> "INPUT", type |-> "date"],
       [tag |-> "TEXTAREA", type |-> ""], [tag |-> "SELECT", type |-> ""] >>

\* Element.matches of one of the selectors
matches(el, selector) ==
    el.tag = selector.tag /\ (selector.type = "" \/ el.type = selector.type)

\* '[contenteditable="true"], div[role="textbox"], textarea[aria-label], input[aria-label]'
editableCandidate(el) ==
    \/ el.contenteditable
    \/ el.tag = "DIV" /\ el.role = "textbox"
    \/ el.tag \in { "TEXTAREA", "INPUT" } /\ el.ariaLabel # ""

\* document.querySelectorAll: the positions of the document that match, in document
\* order
querySelectorAll(doc, matching) ==
    SelectSeq([i \in 1..Len(doc) |-> i], LAMBDA i : i \in matching)

\* querySelector throws a SyntaxError for a selector that is not valid: the id is
\* put between double quotes unescaped
invalidSelector(id) == Includes(id, "\"")

\* .map(id => ...textContent?.trim() || '').filter(Boolean).join(' ')
labelledByText(el) ==
    join(SelectSeq([k \in 1..Len(el.labelledBy) |-> trim(el.labelledBy[k])],
                   LAMBDA t : t # ""), " ")

PromptHops == 5
PromptDepth == 4

\* The first text, trimmed, that is not empty among the first n of the nodes
firstText(nodes, n) ==
    LET hits == { k \in 1..Len(nodes) : k <= n /\ trim(nodes[k]) # "" }
    IN  IF hits = {} THEN ""
        ELSE trim(nodes[CHOOSE k \in hits : \A j \in hits : k <= j])

getNearbyPromptText(el) ==
    IF ~el.container THEN ""
    ELSE Or2(firstText(el.prevHops, PromptHops), firstText(el.ancestors, PromptDepth))

\* const methods, each applied
methods(el) ==
    << trim(el.labelFor), trim(el.parentLabel), labelledByText(el), trim(el.legend),
       trim(el.prevSibling), el.ariaLabel, el.placeholder, el.name, el.id,
       getNearbyPromptText(el) >>

\* getFieldLabel: the label, and how many of the methods it called; ok is FALSE when
\* it throws
getFieldLabel(el) ==
    IF invalidSelector(el.id) THEN [ok |-> FALSE, value |-> "", called |-> 1]
    ELSE LET hits == { k \in 1..Len(methods(el)) : methods(el)[k] # "" }
             first == CHOOSE k \in hits : \A j \in hits : k <= j
         IN  IF hits = {} THEN [ok |-> TRUE, value |-> "", called |-> Len(methods(el))]
             ELSE [ok |-> TRUE, value |-> methods(el)[first], called |-> first]

\* The elements of the primary pass from selector k on: per selector, the matching
\* elements that are neither disabled nor read-only
RECURSIVE primaryPass(_, _)
primaryPass(doc, k) ==
    IF k > Len(selectors) THEN << >>
    ELSE SelectSeq(querySelectorAll(doc, { i \in 1..Len(doc) :
                                            matches(doc[i], selectors[k]) }),
                   LAMBDA i : ~(doc[i].disabled \/ doc[i].readOnly))
         \o primaryPass(doc, k + 1)

\* The field of an element of the primary pass
nativeField(doc, i) ==
    [ element |-> i, type |-> Or2(doc[i].type, toLowerCase(doc[i].tag)),
      name |-> doc[i].name, id |-> doc[i].id, placeholder |-> doc[i].placeholder,
      label |-> getFieldLabel(doc[i]).value, required |-> doc[i].required ]

\* The field of an element of the supplementary sweep
ariaField(doc, i) ==
    [ element |-> i, type |-> Or2(doc[i].role, "textbox"),
      name |-> doc[i].name, id |-> doc[i].id, placeholder |-> doc[i].placeholder,
      label |-> getFieldLabel(doc[i]).value, required |-> doc[i].ariaRequired ]

\* Variant: the sweep does not look at the fields already found
captured_Never(found, i) == FALSE

\* fields.some(f => f.element === el)
captured(found, i) == \E k \in 1..Len(found) : found[k].element = i

detectFormFields(doc) ==
    LET first == primaryPass(doc, 1)
        primary == [k \in 1..Len(first) |-> nativeField(doc, first[k])]
        second == SelectSeq(querySelectorAll(doc, { i \in 1..Len(doc) :
                                                       editableCandidate(doc[i]) }),
                            LAMBDA i : ~captured(primary, i))
        sweep == [k \in 1..Len(second) |-> ariaField(doc, second[k])]
    IN  [ kind |-> "detect",
          ok |-> \A k \in 1..Len(first \o second) :
                    getFieldLabel(doc[(first \o second)[k]]).ok,
          fields |-> primary \o sweep ]

\* The elements label resolution is examined on
LabelElements ==
    { [PlainElement EXCEPT !.labelFor = a, !.parentLabel = b, !.labelledBy = c,
                           !.legend = d, !.prevSibling = e, !.ariaLabel = f,
                           !.placeholder = g, !.name = h, !.id = i, !.prevHops = j] :
        a \in { "", " For " }, b \in { "", "Parent" }, c \in { << >>, << " ", "By" >> },
        d \in { "", "Legend" }, e \in { "", "  ", "Prev" }, f \in { "", " ", "Aria" },
        g \in { "", " ", "Hint" }, h \in { "", "nm" }, i \in { "", "i1", "a\"b" },
        j \in { << >>, << " ", "Heading" >> } }

\* The profiles and the fields direct mapping is examined on
MapProfiles ==
    { NoProfile,
      [name |-> "Jane Doe"],
      [name |-> "", email |-> "j@x.io", address |-> "1 Main St"],
      [email |-> "", address |-> "1 Main St", city |-> "Pune", state |-> "MH"],
      [name |-> "Jane Doe", email |-> "j@x.io", address |-> "1 Main St",
       relocation |-> TRUE],
      [skills |-> << "tla", "ts" >>, relocation |-> TRUE, availability |-> "Now"],
      [skills |-> << >>, relocation |-> FALSE] }

MapLabels ==
    { "Full Name", "Email address", "Home Address", "City / State", "Skills",
      "Willing to relocate?", "Notice period", "Favourite colour" }

MapFields == { [FieldName EXCEPT !.label = l, !.name = ""] : l \in MapLabels }

\* The answers to the bulk prompt the two parse attempts are examined on
ParseTexts ==
    { "{\"field_0\":\"Ann\"}",
      "{\"field_0\":\"Ann\",\"field_1\":\"Bo\"}",
      "Sure: {\"field_0\":\"Ann\"}",
      "{\"field_0\":\"Ann\"} Hope it helps",
      "{\"field_0\":\"Ann\"} or {\"field_0\":\"Bo\"}",
      "{\"field_0\":\"Ann\"} {ok}",
      "{oops}",
      "Blue" }

Inputs ==
    { [kind |-> "detect", doc |-> d] : d \in Documents }
    \cup { [kind |-> "label", element |-> el] : el \in LabelElements }
    \cup { [kind |-> "map", field |-> f, ud |-> ud] : f \in MapFields, ud \in MapProfiles }
    \cup { [kind |-> "parse", json |-> t] : t \in ParseTexts }

InitFunctions ==
    /\ input \in Inputs
    /\ output = NoOutput
    /\ apiKey = ""
    /\ userData = NoProfile
    /\ cache = NoProfile
    /\ rateLimitedUntilMs = 0
    /\ sensitiveKeys = {}
    /\ usageMode = "conservative"
    /\ now = 0
    /\ page = << >>
    /\ dom = EmptyDom(0)
    /\ pc = "idle"
    /\ fields = << >>
    /\ results = [filled |-> 0, total |-> 0, errors |-> << >>]
    /\ bulkValues = NullValues
    /\ fieldIndex = 0
    /\ fieldPos = 0
    /\ learned = << >>
    /\ fb = [index |-> 0, result |-> NoProfile]
    /\ call = NoCall
    /\ ret = NoRet
    /\ report = NoReport
    /\ Initialized
    /\ popup = NoPopup
    /\ hist = [pass |-> NoHist, rl |-> NoRateLimit, passes |-> 0, fetched |-> NoProfile]

\* Everything but output
given == << service, stored, popup, input, cache, rateLimitedUntilMs, usageMode, now,
            page, pc, call, ret, hist, passVars >>

\* detectFormFields is applied to the document
DetectFields ==
    /\ input.kind = "detect"
    /\ output = NoOutput
    /\ output' = detectFormFields(input.doc)
    /\ UNCHANGED given

\* getFieldLabel is applied to the element
ResolveLabel ==
    /\ input.kind = "label"
    /\ output = NoOutput
    /\ output' = [kind |-> "label"] @@ getFieldLabel(input.element)
    /\ UNCHANGED given

\* tryMapWithoutAI is applied to the field, with the profile
MapField ==
    /\ input.kind = "map"
    /\ output = NoOutput
    /\ output' = [kind |-> "map", value |-> tryMapWithoutAI(input.field, input.ud)]
    /\ UNCHANGED given

\* The two parse attempts of generateValuesForFields are applied to the answer
ParseAnswer ==
    /\ input.kind = "parse"
    /\ output = NoOutput
    /\ output' = [kind |-> "parse", ok |-> parseJson(input.json).ok,
                  obj |-> parseJson(input.json).obj]
    /\ UNCHANGED given

NextFunctions == DetectFields \/ ResolveLabel \/ MapField \/ ParseAnswer

SpecFunctions == InitFunctions /\ [][NextFunctions]_vars

---------------------------------------------------------------------------
(* Properties *)

RetPcs == { "bulkRet", "fbRet", "fieldRet" }
Fetching == { "fetch1", "delay", "fetch2" }

\* The pass has answered its caller
Returned == pc = "idle" /\ report.returned

\* The fields of the pass, by position, that direct mapping resolves
Mapped == { i \in 1..Len(fields) : tryMapOf[fields[i]][userData] # "" }

\* The fields of the pass, by position, whose text has a subjective keyword
Subjective == { i \in 1..Len(fields) : subjectiveOf[fields[i]] }

\* The fields the loop has dealt with
Processed == 1..Len(hist.pass.flog)

Blank(i) == ~dom[i].written /\ dom[i].value = "" /\ dom[i].events = << >>

\* C1: in every usage mode a field that direct mapping resolves gets the profile
\* value, and a pass whose fields are all resolved by direct mapping issues no
\* request.
C1_MappedFieldsNeedNoRequest ==
    /\ \A i \in Processed \cap Mapped :
          /\ hist.pass.flog[i].src = "mapped"
          /\ dom[i].value = tryMapOf[fields[i]][userData]
    /\ (Len(fields) > 0 /\ Mapped = 1..Len(fields)) => hist.pass.reqs = 0

\* C2: a pass in mode off makes no generative call and issues no request, whatever
\* the credential, the cache and the cooldown are, and leaves every field that
\* direct mapping does not resolve blank.
C2_OffIssuesNoRequest ==
    hist.pass.passMode = "off" =>
        /\ hist.pass.reqs = 0
        /\ hist.pass.calls = 0
        /\ pc \in { "idle", "loop" }
        /\ \A i \in Processed \ Mapped :
              hist.pass.flog[i].src = "blank" /\ Blank(i)

\* An off pass has returned, with a credential, a cached answer and a running
\* cooldown at hand, and has left an unmapped field blank
C2_OffPassLeftBlank ==
    /\ Returned
    /\ hist.pass.passMode = "off"
    /\ apiKey # ""
    /\ cache # NoProfile
    /\ cooldownActive
    /\ \E i \in Processed \ Mapped : Blank(i)

\* C3: a call whose key is in the cache returns the cached answer without a
\* request, whether or not a cooldown is running.
C3_CacheHitIgnoresCooldown ==
    (pc \in RetPcs /\ hist.pass.callHadCache) =>
        /\ ret.ok
        /\ ret.value = hist.pass.callCached
        /\ hist.pass.callReqs = 0

C5_CachedAnswerIsReturned ==
    (pc \in RetPcs /\ call.kind \in { "subjective", "infer" }
                   /\ hist.pass.callFetched # << >>) =>
        /\ hist.pass.callReqs = 0
        /\ ret.ok
        /\ << ret.value >> = hist.pass.callFetched

\* C6: a call issues at most two requests; the second follows a 5xx response to the
\* first and nothing else, a 5xx response to the first is always followed by it,
\* and a second response that is not ok makes the call throw the API error.
C6_AtMostOneRetry ==
    LET st == hist.pass.callStatuses
    IN  /\ hist.pass.callReqs <= 2
        /\ Len(st) <= 2
        /\ hist.pass.callReqs = 2 => (Len(st) >= 1 /\ st[1] = "r5xx")
        /\ (pc \in RetPcs /\ Len(st) >= 1 /\ st[1] = "r5xx") => hist.pass.callReqs = 2
        /\ (pc \in RetPcs /\ Len(st) = 2 /\ st[2] # "ok") =>
              ~ret.ok /\ ret.value = MsgApi(StatusCode(st[2]))

\* A call has thrown the failure of its retry
C6_RetryFailed ==
    /\ pc \in RetPcs
    /\ hist.pass.callReqs = 2
    /\ Len(hist.pass.callStatuses) = 2
    /\ hist.pass.callStatuses[2] = "r5xx"
    /\ ~ret.ok

\* C7: a conservative pass makes no bulk call; each of its calls is the subjective
\* call of the loop for a field that direct mapping does not resolve and whose text
\* has a subjective keyword, at most one per such field; every other field that
\* direct mapping does not resolve is left blank.
C7_ConservativeAsksSubjectiveOnly ==
    hist.pass.passMode = "conservative" =>
        /\ hist.pass.bulkCalls = 0
        /\ ~hist.pass.fallback
        /\ call.kind # "none" =>
              /\ call.kind = "subjective"
              /\ call.cont = "field"
              /\ fieldPos + 1 \in Subjective \ Mapped
        /\ \A i \in Processed :
              /\ hist.pass.flog[i].src \in { "mapped", "blank", "subjective" }
              /\ hist.pass.flog[i].src = "subjective" => i \in Subjective \ Mapped
              /\ i \notin Subjective \cup Mapped =>
                    hist.pass.flog[i].src = "blank" /\ Blank(i)
        /\ hist.pass.calls <=
              Cardinality({ i \in Subjective \ Mapped :
                              i <= IF call.kind # "none" THEN fieldPos + 1
                                   ELSE fieldPos })

\* A conservative pass has returned after a call for a subjective field and has
\* left another unmapped field blank
C7_ConservativePassDone ==
    /\ Returned
    /\ hist.pass.passMode = "conservative"
    /\ hist.pass.reqs >= 1
    /\ \E i \in Processed : hist.pass.flog[i].src = "subjective" /\ dom[i].written
    /\ \E i \in Processed \ Mapped : hist.pass.flog[i].src = "blank"

\* C8: in auto mode the pass makes one bulk call, which covers the fields that
\* direct mapping left unresolved.
C8_BulkCoversUnmappedFields ==
    /\ call.kind = "bulk" =>
          call.covers = { i - 1 : i \in (1..Len(fields)) \ Mapped }
    /\ (hist.pass.passMode = "auto" /\ hist.passes > 0) => hist.pass.bulkCalls = 1

\* C9: a pass whose bulk answer could not be parsed is not failed by it: it deals
\* with every field, and the failure of a per-field call of the fallback is among
\* the errors of its report.
C9_FallbackFailuresAreCollected ==
    (Returned /\ hist.pass.fallback) =>
        /\ ~report.early
        /\ Len(hist.pass.flog) = Len(fields)
        /\ hist.pass.fbFailed => report.errors # << >>

\* C10: a pass returns before its loop only in auto mode when the bulk call failed
\* with rate-limiting; it then reports filled 0 and one error and has written no
\* field.
C10_EarlyExitOnlyOnBulkRateLimit ==
    (Returned /\ report.early) =>
        /\ hist.pass.passMode = "auto"
        /\ hist.pass.bulkRet = "ratelimit"
        /\ report.filled = 0
        /\ Len(report.errors) = 1
        /\ \A i \in 1..Len(fields) : Blank(i)

\* The fields the loop failed on
Failed == { i \in Processed : hist.pass.flog[i].failed }

Keys(suggestions) == { suggestions[i].key : i \in 1..Len(suggestions) }

\* C12: no suggestion a pass collects or returns has a key that is in the sensitive
\* keys of the service or in its profile, whether or not the field was filled.
C12_SuggestionsSkipSensitiveAndKnown ==
    /\ Keys(learned) \cap (sensitiveKeys \cup DOMAIN userData) = {}
    /\ report.returned =>
          Keys(report.suggestedProfileUpdates) \cap (sensitiveKeys \cup DOMAIN userData) = {}

\* A pass has returned that filled a name field with no name in the profile and
\* suggested nothing, name being sensitive
C12_SensitiveFieldFilled ==
    /\ Returned
    /\ sensitiveKeys = { "name" }
    /\ "name" \notin DOMAIN userData
    /\ \E i \in 1..Len(fields) : fields[i] = FieldName /\ dom[i].written
    /\ report.filled >= 1
    /\ report.suggestedProfileUpdates = << >>

\* C13: no step of a fill pass or of a detect pass changes the profile, in the service
\* or in the storage: the profile of the service never changes, and the stored one
\* changes only in the step in which the user accepts the suggestions shown.
C13_PassesLeaveProfile ==
    [][/\ userData' = userData
       /\ stored'.userData = stored.userData \/ saveLearned]_vars

\* A pass has returned a suggestion for a field it filled, and the profile is as it
\* was loaded, in the service and in the storage
C13_SuggestionNotSaved ==
    /\ Returned
    /\ report.suggestedProfileUpdates # << >>
    /\ report.filled >= 1
    /\ popup.formStats = Len(page)
    /\ stored.userData = userData
    /\ Keys(report.suggestedProfileUpdates) \cap DOMAIN stored.userData = {}

\* The element behind a discovered field
ElementOf(k) == input.doc[output.fields[k].element]

\* An input, a textarea or a select
Native(el) == el.tag \in { "INPUT", "TEXTAREA", "SELECT" }

\* What the primary pass takes: an enabled, writable element of one of its selectors
Primary(el) ==
    /\ \/ el.tag = "INPUT"
          /\ el.type \in { "text", "email", "tel", "url", "number", "date" }
       \/ el.tag \in { "TEXTAREA", "SELECT" }
    /\ ~el.disabled
    /\ ~el.readOnly

\* C14: the sequence field discovery returns holds no disabled and no read-only
\* native element, whichever pass matched it
C14_NoDisabledOrReadOnlyField ==
    output.kind = "detect" =>
        \A k \in 1..Len(output.fields) :
            Native(ElementOf(k)) => ~ElementOf(k).disabled /\ ~ElementOf(k).readOnly

\* C15: every element appears at most once in the sequence field discovery returns,
\* also an element both passes match
C15_ElementsAppearOnce ==
    output.kind = "detect" =>
        \A j, k \in 1..Len(output.fields) :
            output.fields[j].element = output.fields[k].element => j = k

\* Discovery has returned the field of an element that both passes match
C15_MatchedByBothPasses ==
    /\ output.kind = "detect"
    /\ \E k \in 1..Len(output.fields) :
          /\ Primary(ElementOf(k))
          /\ ElementOf(k).tag = "INPUT"
          /\ ElementOf(k).ariaLabel # ""

\* C16: the fields of the primary pass are in document order whatever their types,
\* so are the fields of the supplementary sweep, and every supplementary field comes
\* after every primary field
C16_DocumentOrderWithinPasses ==
    output.kind = "detect" =>
        \A j, k \in 1..Len(output.fields) :
            j < k =>
                /\ Primary(ElementOf(j)) = Primary(ElementOf(k))
                      => output.fields[j].element < output.fields[k].element
                /\ ~(Primary(ElementOf(k)) /\ ~Primary(ElementOf(j)))

\* The ten strategies of label resolution on an element, in their fixed order
Strategies(el) ==
    << trim(el.labelFor), trim(el.parentLabel), labelledByText(el), trim(el.legend),
       trim(el.prevSibling), el.ariaLabel, el.placeholder, el.name, el.id,
       getNearbyPromptText(el) >>

\* C17: label resolution ends with a string for any element: the result of the
\* lowest-numbered strategy that is not empty, no later strategy being evaluated,
\* and the empty string exactly when all ten are empty
C17_LabelIsFirstNonEmptyStrategy ==
    output.kind = "label" =>
        LET all == Strategies(input.element)
        IN  /\ output.ok
            /\ \/ /\ output.value = ""
                  /\ \A n \in 1..10 : all[n] = ""
               \/ /\ output.value # ""
                  /\ output.value = all[output.called]
                  /\ \A n \in 1..(output.called - 1) : all[n] = ""

\* The categories in their declared order, the social links being three
DeclaredOrder ==
    << "name", "email", "phone", "address", "city", "state", "zipCode", "country",
       "dateOfBirth", "linkedin", "github", "portfolio", "experience", "education",
       "skills", "salary", "availability" >>

\* The category at position n matches the field text and has a value
Wins(n) ==
    /\ labelMatchesCategory(fieldText4(input.field), DeclaredOrder[n])
    /\ mappingValue(input.ud, DeclaredOrder[n]) # ""

\* C18: direct mapping returns the profile value of the first category, in the
\* declared order, whose value is not empty and whose synonyms match the field text,
\* skipping a matching category with an empty value; relocation is consulted only
\* when no category of the list wins
C18_FirstCategoryWithValueWins ==
    output.kind = "map" =>
        \/ \E n \in 1..Len(DeclaredOrder) :
              /\ Wins(n)
              /\ \A m \in 1..(n - 1) : ~Wins(m)
              /\ output.value = mappingValue(input.ud, DeclaredOrder[n])
        \/ /\ \A n \in 1..Len(DeclaredOrder) : ~Wins(n)
           /\ IF labelMatchesCategory(fieldText4(input.field), "relocation")
              THEN output.value \in { "Yes", "No" }
              ELSE output.value = ""

\* The field text matches email and address, the profile has no email, and direct
\* mapping has returned the address
C18_EmptyEmailSkipped ==
    /\ output.kind = "map"
    /\ labelMatchesCategory(fieldText4(input.field), "email")
    /\ labelMatchesCategory(fieldText4(input.field), "address")
    /\ mappingValue(input.ud, "email") = ""
    /\ mappingValue(input.ud, "address") # ""
    /\ output.value = mappingValue(input.ud, "address")

\* C19: a pass runs in the usage mode last set: the mode in the storage when the
\* pass starts, whether setUsageMode or the popup stored it.
C19_PassRunsInStoredMode ==
    [][(pc = "idle" /\ pc' # "idle") => hist'.pass.passMode = stored.usageMode]_vars

\* C20: with no credential every generative call throws the configuration error at
\* once and no request is issued; the pass, in any mode, does not end early, writes
\* the profile value to every field with a direct mapping, and records the
\* configuration error for the fields it made a generative call for and for no other.
C20_NoCredentialStillMaps ==
    apiKey = "" =>
        /\ hist.pass.reqs = 0
        /\ pc \notin Fetching
        /\ pc \in RetPcs => (~ret.ok /\ ret.value = MsgNoKey)
        /\ ~(report.returned /\ report.early)
        /\ Returned => Len(hist.pass.flog) = Len(fields)
        /\ \A i \in Processed :
              /\ i \in Mapped =>
                    /\ hist.pass.flog[i].src = "mapped"
                    /\ dom[i].written
                    /\ dom[i].value = tryMapOf[fields[i]][userData]
              /\ i \in Failed <=> hist.pass.flog[i].src \in { "subjective", "infer" }
        /\ Len(results.errors) = Cardinality(Failed)
        /\ \A j \in 1..Len(results.errors) : Includes(results.errors[j], MsgNoKey)

\* An auto pass without a credential has returned: it wrote a mapped field and
\* recorded the configuration error for another
C20_PassWithoutCredential ==
    /\ Returned
    /\ apiKey = ""
    /\ hist.pass.passMode = "auto"
    /\ \E i \in Mapped : dom[i].written
    /\ Failed # {}
    /\ Len(report.errors) = 1

\* What each of the ten strategies finds for an element, before any trimming
Candidates(el) ==
    << el.labelFor, el.parentLabel, labelledByText(el), el.legend, el.prevSibling,
       el.ariaLabel, el.placeholder, el.name, el.id, getNearbyPromptText(el) >>

\* C21: every label the resolver returns is trimmed, for all ten strategies: a
\* candidate that is empty after trimming counts as not found, and the label is the
\* first candidate, trimmed, that is not
C21_LabelsAreTrimmed ==
    (output.kind = "label" /\ output.ok) =>
        LET all == Candidates(input.element)
            found == { n \in 1..10 : trim(all[n]) # "" }
        IN  /\ output.value = trim(output.value)
            /\ IF found = {} THEN output.value = ""
               ELSE output.value = trim(all[CHOOSE n \in found : \A m \in found : n <= m])

\* The elements of the page a value was written to
Written == { i \in 1..Len(dom) : dom[i].written }

\* C22: a select none of whose options contains the resolved value is left unfilled:
\* its selection is unchanged, the report's filled count does not count it, and the
\* failure is among the report's errors
C22_SelectWithoutMatchIsUnfilled ==
    \A i \in 1..Len(dom) :
        dom[i].missed =>
            /\ dom[i].value = ""
            /\ results.filled = Cardinality(Written)
            /\ results.errors # << >>

\* C23: an "input" and then a "change" notification are dispatched on a field once
\* each, with its write and before the next field is processed, and on no field
\* left blank or without a successful write
C23_EventsFollowWrites ==
    \A i \in 1..Len(dom) :
        dom[i].events = IF dom[i].written THEN << "input", "change" >> ELSE << >>

\* The step receives a rate-limit response, to the first attempt or to the retry
ReceivesRateLimit ==
    /\ pc \in { "fetch1", "fetch2" }
    /\ hist'.pass.callStatuses = Append(hist.pass.callStatuses, "r429")

\* C24: every rate-limit response received, on the first attempt or on the retry
\* that follows a 5xx, records a cooldown of the service's retry hint (30 seconds
\* without a usable hint), fails the call, and stores nothing in the cache
C24_RateLimitRecordsCooldown ==
    [][ReceivesRateLimit =>
          /\ \E header \in RetryAfterHeaders :
                rateLimitedUntilMs' = now + RetryHint(header)
          /\ pc = "fetch1" => rateLimitedUntilMs' = now + hist'.rl.secs
          /\ ~ret'.ok
          /\ cache' = cache]_vars

\* The first top-level {...} of a text without nested braces: from its first "{" to
\* the first "}" after it ("" when there is none)
FirstObject(json) ==
    LET a == IndexOf(json, "{", 1)
        b == IF a = 0 THEN 0 ELSE IndexOf(json, "}", a)
    IN  IF b # 0 THEN SubSeq(json, a, b) ELSE ""

\* C25: when the bulk answer is not itself valid JSON, the values are those of its
\* first top-level {...}, also when text or another brace group follows it; the
\* per-field fallback is entered only when that first object cannot be parsed
C25_FirstObjectIsExtracted ==
    (output.kind = "parse" /\ ~JSONparse(input.json).ok) =>
        LET first == FirstObject(input.json)
        IN  IF first # "" /\ JSONparse(first).ok
            THEN output.ok /\ output.obj = JSONparse(first).obj
            ELSE ~output.ok

\* The value of a key in a profile, << >> when the profile does not have the key
Held(ud, k) == IF k \in DOMAIN ud THEN << ud[k] >> ELSE << >>

\* C26: updateUserData never changes the value, in memory or stored, of a key that
\* is in the sensitive set when it is called; every other key of its argument with
\* a defined value gets that value, and the keys not in its argument are unchanged
C26_UpdateSparesSensitiveKeys ==
    [][\A newData \in NewData :
          updateUserData(newData) =>
              \A k \in DOMAIN userData \cup DOMAIN userData' \cup DOMAIN newData
                       \cup DOMAIN stored.userData \cup DOMAIN stored'.userData :
                  IF k \notin sensitiveKeys /\ k \in DOMAIN newData /\ newData[k] # << >>
                  THEN /\ Held(userData', k) = newData[k]
                       /\ Held(stored'.userData, k) = newData[k]
                  ELSE /\ Held(userData', k) = Held(userData, k)
                       /\ Held(stored'.userData, k) = Held(stored.userData, k)]_vars

\* updateUserData was called with a new value for a sensitive key and a value for
\* another key: the profile holds the second and not the first
C26_SensitiveKeyKept ==
    /\ input.kind = "updateUserData"
    /\ \E k \in sensitiveKeys \cap DOMAIN input.newData :
          /\ input.newData[k] # << >>
          /\ Held(userData, k) # input.newData[k]
          /\ Held(stored.userData, k) # input.newData[k]
    /\ \E k \in DOMAIN input.newData \ sensitiveKeys :
          /\ Held(userData, k) = input.newData[k]
          /\ Held(stored.userData, k) = input.newData[k]

\* The step receives a 2xx response, to the first attempt or to the retry
ReceivesAnswer ==
    /\ pc \in { "fetch1", "fetch2" }
    /\ hist'.pass.callStatuses = Append(hist.pass.callStatuses, "ok")

\* C27: the cache maps a key only to the answer of a 2xx response to a call made with
\* that key; a call that fails, is rate limited, fails fast or lacks the credential
\* leaves the cache as it is, and only clearCache removes entries
C27_CacheHoldsFetchedAnswers ==
    /\ [](\A k \in DOMAIN cache :
             k \in DOMAIN hist.fetched /\ cache[k] = hist.fetched[k])
    /\ [][cache' # cache =>
             \/ clearCache
             \/ /\ ReceivesAnswer
                /\ DOMAIN cache' = DOMAIN cache \cup { call.cacheKey }
                /\ \A k \in DOMAIN cache \ { call.cacheKey } : cache'[k] = cache[k]]_vars

\* A call has failed on the response to its request while the cache held an answer
\* under another key, and the cache still holds it
C27_FailedCallKeepsCache ==
    /\ pc \in RetPcs
    /\ ~ret.ok
    /\ hist.pass.callStatuses # << >>
    /\ cache # NoProfile
    /\ call.cacheKey \notin DOMAIN cache

\* The labels of the fields of the pass, in their order
LabelsOf(fs) == [i \in 1..Len(fs) |-> fs[i].label]

\* C28: the key of the bulk call is made of the labels of the fields, in their order,
\* and of nothing else: an auto pass over fields whose labels an earlier pass had an
\* answer fetched for, with no clearCache since, takes that answer and issues no
\* request for it, also when the profile has changed between the passes
C28_BulkAnswerReusedByLabels ==
    /\ call.kind = "bulk" => call.cacheKey = "bulk_" \o join(LabelsOf(fields), "|")
    /\ (pc = "bulkRet" /\ hist.pass.callFetched # << >>) =>
          /\ ret.ok
          /\ << ret.value >> = hist.pass.callFetched
          /\ hist.pass.callReqs = 0

\* C29: in an auto pass the index i of the key field_<i> under which the answers are
\* looked up is the index the bulk request gave to the field being processed (its
\* position in the fields, from 0), also for a field that comes after a field whose
\* processing threw or that was left blank
C29_BulkIndexFollowsFields ==
    hist.pass.passMode = "auto" =>
        /\ fieldIndex = fieldPos
        /\ (pc = "loop" /\ fieldPos < Len(fields)) =>
              fields[fieldIndex + 1] = fields[fieldPos + 1]
        /\ call.kind = "bulk" => call.covers = { i - 1 : i \in 1..Len(fields) }

\* In an auto pass the processing of the first field threw and the loop is at the
\* second field
C29_FieldAfterThrow ==
    /\ hist.pass.passMode = "auto"
    /\ pc = "loop"
    /\ Len(fields) = 2
    /\ fieldPos = 1
    /\ Len(hist.pass.flog) = 1
    /\ hist.pass.flog[1].failed
    /\ fieldKey(fieldIndex) = "field_1"

\* C30: a key saved as sensitive through the popup stays in the stored sensitive keys
\* across every later saveLearned unless the user has unticked it, and saveLearned
\* writes no suggestion whose key is ticked into the stored profile
C30_SavedSensitiveKeysStay ==
    [][saveLearned =>
          /\ \A k \in stored.sensitiveKeys :
                k \in stored'.sensitiveKeys \/ k \in popup.unticked
          /\ \A k \in popup.sensitive :
                Held(stored'.userData, k) = Held(stored.userData, k)]_vars

=============================================================================





